---------------------------- MODULE Spec2Model ----------------------------
(***************************************************************************)
(* toml-migrate: a chain of versioned configuration schemas declared with  *)
(* build_migration_chain!, and ConfigMigrator::migrate_config, which parses *)
(* a document, removes and resolves its version tag, walks the chain        *)
(* backward from the target schema to the schema whose VERSION equals the   *)
(* tag (Migrate::migrate_from_doc), deserializes there and converts forward *)
(* with From/Into on the way back up.                                       *)
(*                                                                         *)
(* Schema types are the identifiers handed to the macro; they are written   *)
(* 1..n here, in declaration order (Rust rejects two impls of Migrate for   *)
(* one type, so the identifiers of a chain are distinct).                   *)
(***************************************************************************)
EXTENDS Integers, Sequences, FiniteSets

VARIABLES
    decls,      \* the declaration list given to build_migration_chain!
    impls,      \* the generated impls of Migrate: <<[type, From, VERSION]>>
    migrator,   \* ConfigMigrator {version_key, default_version}
    pc,         \* "start" | "built" | "idle" | "call" | "ret" | "done"
    T,          \* the target schema type of the running migrate_config call
    config_str, \* the text handed to migrate_config
    doc,        \* the DocumentMut owned by the call
    version,    \* Option<i64>: the resolved version tag
    cur,        \* Self of the migrate_from_doc frame being entered
    stack,      \* the frames waiting in `.map(Into::into)`, innermost last
    ret,        \* Result<Self, Error> a migrate_from_doc frame returned
    result,     \* Result<(T, bool), Error> of migrate_config
    visited,    \* history: Self of every migrate_from_doc frame entered
    deserLog,   \* history: every (schema, document) given to from_document
    convLog     \* history: every conversion <<from, to>> applied by Into::into

vars == <<decls, impls, migrator, pc, T, config_str, doc, version, cur, stack,
          ret, result, visited, deserLog, convLog>>

-----------------------------------------------------------------------------
(* Bounds of the model *)

\* longest declaration list given to build_migration_chain!
MaxChain == 3
\* version numbers (of schemas, of documents, of the default) are in 1..MaxVersion
MaxVersion == 3

(* Program constants *)

\* retries: 4 in From<ConfigV1> for ConfigV2
DefaultRetries == 4

-----------------------------------------------------------------------------
(* Option<T> *)

None == <<>>
Some(x) == <<x>>
Unwrap(o) == o[1]

(* toml values: an integer or a string *)
IntVal(n) == [t |-> "int", v |-> n]
StrVal == [t |-> "str", v |-> 0]

EmptyTable == [k \in {} |-> StrVal]


-----------------------------------------------------------------------------
(* The document collaborator (toml_edit): text, parser, table operations *)

\* one line of text: `key = value`
Line(k, x) == [key |-> k, val |-> x]
\* a table header that is never closed: a line the parser rejects
UnterminatedTable == [key |-> "[table", val |-> StrVal]

\* the table after one more `key = value` line
Insert(tbl, k, x) == [f \in DOMAIN tbl \cup {k} |-> IF f = k THEN x ELSE tbl[f]]

\* str::parse::<DocumentMut>: the lines are read in order into a table; an
\* unterminated table header or a key defined twice is a TomlError
RECURSIVE ParseLines(_, _)
ParseLines(lines, tbl) ==
    IF lines = <<>> THEN [ok |-> TRUE, doc |-> tbl]
    ELSE IF Head(lines) = UnterminatedTable \/ Head(lines).key \in DOMAIN tbl
         THEN [ok |-> FALSE, doc |-> EmptyTable]
         ELSE ParseLines(Tail(lines), Insert(tbl, Head(lines).key, Head(lines).val))

Parse(text) == ParseLines(text, EmptyTable)

\* a slip: the key is read (Table::get) and stays in the table
RemoveKeyKeeps(tbl, k) == tbl

\* Table::remove: the item stored under the key, if any ...
RemovedItem(tbl, k) == IF k \in DOMAIN tbl THEN Some(tbl[k]) ELSE None
\* ... and the table left without the key
RemoveKey(tbl, k) == [f \in DOMAIN tbl \ {k} |-> tbl[f]]

\* Item::as_integer
AsInteger(item) == IF item.t = "int" THEN Some(item.v) ELSE None

\* Option::and_then(|x| x.as_integer())
AndThenAsInteger(o) == IF o = None THEN None ELSE AsInteger(Unwrap(o))

\* a slip: the alternative is taken whenever there is one
OrPrefersOther(o, other) == IF other # None THEN other ELSE o

\* Option::or
Or(o, other) == IF o # None THEN o ELSE other

-----------------------------------------------------------------------------
(* Result<_, Error> *)

NoValue == [shape |-> 0, fields |-> EmptyTable]
Ok(x) == [ok |-> TRUE, val |-> x, err |-> "none"]
Err(e) == [ok |-> FALSE, val |-> NoValue, err |-> e]

\* Result<(T, bool), Error>
OkPair(x, b) == [ok |-> TRUE, val |-> x, migrated |-> b, err |-> "none"]
ErrPair(e) == [ok |-> FALSE, val |-> NoValue, migrated |-> FALSE, err |-> e]

-----------------------------------------------------------------------------
(* The integrator's schemas, after examples/migrate.rs: the first has      *)
(* `name`, the second adds `retries`; further schemas drop and add it in    *)
(* turn, so that a chain holds conversions of both kinds.                   *)

FieldType(f) == IF f = "retries" THEN "int" ELSE "str"

Fields(S) == IF S % 2 = 0 THEN {"name", "retries"} ELSE {"name"}

\* serde's derived Deserialize: every field of the struct present with its
\* type; keys that are no field of the struct are ignored
Deserializable(S, d) ==
    \A f \in Fields(S) : f \in DOMAIN d /\ d[f].t = FieldType(f)

\* toml_edit::de::from_document::<S>
FromDocument(S, d) ==
    IF Deserializable(S, d)
    THEN Ok([shape |-> S, fields |-> [f \in Fields(S) |-> d[f]]])
    ELSE Err("Deser")

\* <S as From<S::From>>::from: fields are carried over, a new field gets its
\* default, a removed field is dropped
Convert(S, prev) ==
    [shape |-> S,
     fields |-> [f \in Fields(S) |->
                    IF f \in DOMAIN prev.fields THEN prev.fields[f]
                    ELSE IntVal(DefaultRetries)]]

-----------------------------------------------------------------------------
(* build_migration_chain!: the impls of Migrate the macro expands to *)

Decl(ty, ver) == [type |-> ty, ver |-> ver]

\* rule ($type:ident = $ver:literal): type From = Self
RootImpl(d) == [type |-> d.type, From |-> d.type, VERSION |-> d.ver]

\* a slip: every impl gets type From = Self
InternalImplSelf(prev_type, d) == [type |-> d.type, From |-> d.type, VERSION |-> d.ver]

\* the impl of rule (@internal $prev_type, $type = $ver ...): type From = $prev_type
InternalImpl(prev_type, d) == [type |-> d.type, From |-> prev_type, VERSION |-> d.ver]

\* rule (@internal $prev_type:ident, $type:ident = $ver:literal $(, $($rest:tt)*)?)
RECURSIVE Internal(_, _)
Internal(prev_type, rest) ==
    IF rest = <<>> THEN <<>>
    ELSE <<InternalImpl(prev_type, Head(rest))>>
            \o Internal(Head(rest).type, Tail(rest))

\* rules ($type = $ver) and ($first_type = $first_ver, $($rest:tt)*)
BuildMigrationChainImpls(ds) ==
    <<RootImpl(Head(ds))>> \o Internal(Head(ds).type, Tail(ds))

\* the impl of Migrate for a type
ImplOf(ty) == CHOOSE i \in {impls[j] : j \in DOMAIN impls} : i.type = ty
\* <S as Migrate>::From and <S as Migrate>::VERSION
From(S) == ImplOf(S).From
VERSION(S) == ImplOf(S).VERSION

\* the types that implement Migrate
Types == {impls[j].type : j \in DOMAIN impls}

-----------------------------------------------------------------------------
(* The inputs the model draws *)

\* declaration lists: types 1..n in order, each with any version number
DeclLists ==
    UNION {{[i \in 1..n |-> Decl(i, vs[i])] : vs \in [1..n -> 1..MaxVersion]}
            : n \in 1..MaxChain}

VersionKeys == {"version", "retries"}

VersionLines ==
    {<<>>, <<Line("version", StrVal)>>}
        \cup {<<Line("version", IntVal(n))>> : n \in 1..MaxVersion}
NameLines == {<<>>, <<Line("name", StrVal)>>}
RetriesLines ==
    {<<>>, <<Line("retries", IntVal(1))>>, <<Line("retries", StrVal)>>}
\* what may end a text: nothing, or a table header left open
LastLines == {<<>>, <<UnterminatedTable>>}

\* the texts: any of the three keys, in this order, then the last line; and
\* one text that defines a key twice
Texts ==
    {a \o b \o c \o z : a \in VersionLines, b \in NameLines,
                         c \in RetriesLines, z \in LastLines}
        \cup {<<Line("name", StrVal), Line("name", StrVal)>>}

-----------------------------------------------------------------------------
(* The state machine *)

NoCall ==
    /\ T = 0 /\ config_str = <<>> /\ doc = EmptyTable /\ version = None
    /\ cur = 0 /\ stack = <<>> /\ ret = Err("none") /\ result = ErrPair("none")
    /\ visited = <<>> /\ deserLog = <<>> /\ convLog = <<>>

Init ==
    /\ pc = "start"
    /\ decls = <<>> /\ impls = <<>>
    /\ migrator = [version_key |-> "", default_version |-> None]
    /\ NoCall

callVars == <<T, config_str, doc, version, cur, stack, ret, result,
              visited, deserLog, convLog>>

\* build_migration_chain!(T1 = v1, ..., Tn = vn)
BuildMigrationChain ==
    /\ pc = "start"
    /\ \E ds \in DeclLists :
          /\ decls' = ds
          /\ impls' = BuildMigrationChainImpls(ds)
    /\ pc' = "built"
    /\ UNCHANGED <<migrator, callVars>>

\* ConfigMigrator::new(version_key)
New ==
    /\ pc = "built"
    /\ \E k \in VersionKeys :
          migrator' = [version_key |-> k, default_version |-> None]
    /\ pc' = "idle"
    /\ UNCHANGED <<decls, impls, callVars>>

\* ConfigMigrator::with_default_version(default_version)
WithDefaultVersion ==
    /\ pc = "idle"
    /\ \E d \in 1..MaxVersion :
          migrator' = [migrator EXCEPT !.default_version = Some(d)]
    /\ UNCHANGED <<decls, impls, pc, callVars>>

\* a slip: `.or(self.default_version)` is missing
ResolveVersionNoDefault(item, default_version) == AndThenAsInteger(item)

\* the version tag of migrate_config: the removed item as an integer, or the
\* default
ResolveVersion(item, default_version) ==
    Or(AndThenAsInteger(item), default_version)

\* migration_occured
MigrationOccured(ver, target) == ver # VERSION(target)

\* a slip: the version is resolved before the parse error is looked at
MigrateConfigVersionFirst ==
    /\ pc = "idle"
    /\ \E target \in Types, text \in Texts :
        LET parsed == Parse(text)
            item == RemovedItem(parsed.doc, migrator.version_key)
            rest == RemoveKey(parsed.doc, migrator.version_key)
            ver == ResolveVersion(item, migrator.default_version)
        IN  /\ T' = target
            /\ config_str' = text
            /\ cur' = target
            /\ stack' = <<>> /\ ret' = Err("none")
            /\ visited' = <<>> /\ deserLog' = <<>> /\ convLog' = <<>>
            /\ IF ver = None
               THEN /\ doc' = rest /\ version' = None
                    /\ result' = ErrPair("NoValidVersion")
                    /\ pc' = "done"
               ELSE IF ~parsed.ok
               THEN /\ doc' = EmptyTable /\ version' = None
                    /\ result' = ErrPair("Parse")
                    /\ pc' = "done"
               ELSE /\ doc' = rest /\ version' = ver
                    /\ result' = ErrPair("none")
                    /\ pc' = "call"
    /\ UNCHANGED <<decls, impls, migrator>>

\* migrate_config::<T>(config_str) up to its call of T::migrate_from_doc.
\* The call takes &self and writes nothing but its own locals, so calls do not
\* influence each other: a behaviour holds one call.
MigrateConfig ==
    /\ pc = "idle"
    /\ \E target \in Types, text \in Texts :
        LET parsed == Parse(text)
            item == RemovedItem(parsed.doc, migrator.version_key)
            rest == RemoveKey(parsed.doc, migrator.version_key)
            ver == ResolveVersion(item, migrator.default_version)
        IN  /\ T' = target
            /\ config_str' = text
            /\ cur' = target
            /\ stack' = <<>> /\ ret' = Err("none")
            /\ visited' = <<>> /\ deserLog' = <<>> /\ convLog' = <<>>
            /\ IF ~parsed.ok
               THEN /\ doc' = EmptyTable /\ version' = None
                    /\ result' = ErrPair("Parse")
                    /\ pc' = "done"
               ELSE IF ver = None
               THEN /\ doc' = rest /\ version' = None
                    /\ result' = ErrPair("NoValidVersion")
                    /\ pc' = "done"
               ELSE /\ doc' = rest /\ version' = ver
                    /\ result' = ErrPair("none")
                    /\ pc' = "call"
    /\ UNCHANGED <<decls, impls, migrator>>

\* a slip: the root deserializes whatever the version is
MigrateFromDocRootDeserializes ==
    /\ pc = "call"
    /\ visited' = Append(visited, cur)
    /\ IF Unwrap(version) = VERSION(cur) \/ cur = From(cur)
       THEN /\ ret' = FromDocument(cur, doc)
            /\ deserLog' = Append(deserLog, [schema |-> cur, doc |-> doc])
            /\ pc' = "ret"
            /\ UNCHANGED <<cur, stack>>
       ELSE /\ stack' = Append(stack, cur)
            /\ cur' = From(cur)
            /\ UNCHANGED <<pc, ret, deserLog>>
    /\ UNCHANGED <<decls, impls, migrator, T, config_str, doc, version,
                   result, convLog>>

\* a slip: the test for the root is missing, the root recurses into itself
MigrateFromDocNoRootTest ==
    /\ pc = "call"
    /\ visited' = Append(visited, cur)
    /\ IF Unwrap(version) = VERSION(cur)
       THEN /\ ret' = FromDocument(cur, doc)
            /\ deserLog' = Append(deserLog, [schema |-> cur, doc |-> doc])
            /\ pc' = "ret"
            /\ UNCHANGED <<cur, stack>>
       ELSE /\ stack' = Append(stack, cur)
            /\ cur' = From(cur)
            /\ UNCHANGED <<pc, ret, deserLog>>
    /\ UNCHANGED <<decls, impls, migrator, T, config_str, doc, version,
                   result, convLog>>

\* a slip: the matching frame deserializes the target's shape, not its own
MigrateFromDocAtTarget ==
    /\ pc = "call"
    /\ visited' = Append(visited, cur)
    /\ IF Unwrap(version) = VERSION(cur)
       THEN /\ ret' = FromDocument(T, doc)
            /\ deserLog' = Append(deserLog, [schema |-> T, doc |-> doc])
            /\ pc' = "ret"
            /\ UNCHANGED <<cur, stack>>
       ELSE IF cur = From(cur)
       THEN /\ ret' = Err("NoValidVersion")
            /\ pc' = "ret"
            /\ UNCHANGED <<cur, stack, deserLog>>
       ELSE /\ stack' = Append(stack, cur)
            /\ cur' = From(cur)
            /\ UNCHANGED <<pc, ret, deserLog>>
    /\ UNCHANGED <<decls, impls, migrator, T, config_str, doc, version,
                   result, convLog>>

\* one frame of Self::migrate_from_doc(version, doc), Self = cur
MigrateFromDoc ==
    /\ pc = "call"
    /\ visited' = Append(visited, cur)
    /\ IF Unwrap(version) = VERSION(cur)
       THEN /\ ret' = FromDocument(cur, doc)
            /\ deserLog' = Append(deserLog, [schema |-> cur, doc |-> doc])
            /\ pc' = "ret"
            /\ UNCHANGED <<cur, stack>>
       ELSE IF cur = From(cur)
       THEN /\ ret' = Err("NoValidVersion")
            /\ pc' = "ret"
            /\ UNCHANGED <<cur, stack, deserLog>>
       ELSE /\ stack' = Append(stack, cur)
            /\ cur' = From(cur)
            /\ UNCHANGED <<pc, ret, deserLog>>
    /\ UNCHANGED <<decls, impls, migrator, T, config_str, doc, version,
                   result, convLog>>

\* a slip: the frame hands the predecessor's value on without converting it
MapIntoKeepsValue ==
    /\ pc = "ret" /\ stack # <<>>
    /\ stack' = SubSeq(stack, 1, Len(stack) - 1)
    /\ cur' = stack[Len(stack)]
    /\ UNCHANGED <<decls, impls, migrator, pc, T, config_str, doc, version,
                   ret, result, visited, deserLog, convLog>>

\* `.map(Into::into)` in the frame that made the recursive call
MapInto ==
    /\ pc = "ret" /\ stack # <<>>
    /\ LET S == stack[Len(stack)]
       IN  /\ stack' = SubSeq(stack, 1, Len(stack) - 1)
           /\ cur' = S
           /\ IF ret.ok
              THEN /\ ret' = Ok(Convert(S, ret.val))
                   /\ convLog' = Append(convLog, <<ret.val.shape, S>>)
              ELSE UNCHANGED <<ret, convLog>>
    /\ UNCHANGED <<decls, impls, migrator, pc, T, config_str, doc, version,
                   result, visited, deserLog>>

\* a slip: every error of the walk is reported as NoValidVersion
ReturnNoValidVersion ==
    /\ pc = "ret" /\ stack = <<>>
    /\ result' = IF ret.ok
                 THEN OkPair(ret.val, MigrationOccured(Unwrap(version), T))
                 ELSE ErrPair("NoValidVersion")
    /\ pc' = "done"
    /\ UNCHANGED <<decls, impls, migrator, T, config_str, doc, version, cur,
                   stack, ret, visited, deserLog, convLog>>

\* migrate_config after T::migrate_from_doc returned
Return ==
    /\ pc = "ret" /\ stack = <<>>
    /\ result' = IF ret.ok
                 THEN OkPair(ret.val, MigrationOccured(Unwrap(version), T))
                 ELSE ErrPair(ret.err)
    /\ pc' = "done"
    /\ UNCHANGED <<decls, impls, migrator, T, config_str, doc, version, cur,
                   stack, ret, visited, deserLog, convLog>>

Next ==
    \/ BuildMigrationChain
    \/ New
    \/ WithDefaultVersion
    \/ MigrateConfig
    \/ MigrateFromDoc
    \/ MapInto
    \/ Return

Spec == Init /\ [][Next]_vars

\* a call that was entered keeps running: nothing in it waits
FairSpec == Spec /\ WF_vars(MigrateFromDoc) /\ WF_vars(MapInto) /\ WF_vars(Return)

\* every call of migrate_config returns
Termination == (pc = "call") ~> (pc = "done")

TypeOK ==
    /\ pc \in {"start", "built", "idle", "call", "ret", "done"}
    /\ pc # "start" => decls \in DeclLists /\ Len(impls) = Len(decls)
    /\ pc \in {"call", "ret", "done"} => T \in Types /\ config_str \in Texts

-----------------------------------------------------------------------------
(* migrate_config as a function of its arguments: what the steps above     *)
(* compute, written as the recursion of the source                         *)

RECURSIVE MigrateFromDocResult(_, _, _)
MigrateFromDocResult(S, ver, d) ==
    IF ver = VERSION(S) THEN FromDocument(S, d)
    ELSE IF S = From(S) THEN Err("NoValidVersion")
    ELSE LET r == MigrateFromDocResult(From(S), ver, d)
         IN  IF r.ok THEN Ok(Convert(S, r.val)) ELSE r

MigrateConfigResult(m, target, text) ==
    LET parsed == Parse(text)
        item == RemovedItem(parsed.doc, m.version_key)
        rest == RemoveKey(parsed.doc, m.version_key)
        ver == ResolveVersion(item, m.default_version)
    IN  IF ~parsed.ok THEN ErrPair("Parse")
        ELSE IF ver = None THEN ErrPair("NoValidVersion")
        ELSE LET r == MigrateFromDocResult(target, Unwrap(ver), rest)
             IN  IF r.ok
                 THEN OkPair(r.val, MigrationOccured(Unwrap(ver), target))
                 ELSE ErrPair(r.err)

\* the steps and the recursion agree on every finished call
StepsAgreeWithRecursion ==
    pc = "done" => result = MigrateConfigResult(migrator, T, config_str)

-----------------------------------------------------------------------------
(* Vocabulary of the properties, stated on the inputs of a call *)

InCall == pc \in {"call", "ret", "done"}

\* the text is one the parser rejects: a table header left open, or a key
\* defined twice
Malformed(text) ==
    \/ \E i \in DOMAIN text : text[i] = UnterminatedTable
    \/ \E i, j \in DOMAIN text : i # j /\ text[i].key = text[j].key

\* the value the text gives a key: the value of the line that defines it
HasKey(text, k) == \E i \in DOMAIN text : text[i].key = k
ValueOf(text, k) == text[CHOOSE i \in DOMAIN text : text[i].key = k].val

\* the document the matched schema is to see: every key of the text but the
\* version key, with the text's value
DocWithout(text, k) ==
    [f \in {text[i].key : i \in DOMAIN text} \ {k} |-> ValueOf(text, f)]

\* the text carries an integer version field
ExplicitTag(text, k) == HasKey(text, k) /\ ValueOf(text, k).t = "int"

\* position of a schema type in the declaration list
Pos(S) == CHOOSE i \in DOMAIN decls : decls[i].type = S

\* the schemas the walk from S can see: S and those declared before it
Reachable(S) == {decls[i].type : i \in 1..Pos(S)}

\* the schemas reachable from S whose version is v
Matches(S, v) == {R \in Reachable(S) : decls[Pos(R)].ver = v}

\* the one of them declared last, that is nearest to S
Nearest(S, v) ==
    CHOOSE R \in Matches(S, v) : \A Q \in Matches(S, v) : Pos(Q) <= Pos(R)

\* the conversions lo -> lo+1 -> ... -> hi applied to a value of schema lo,
\* in declaration order
RECURSIVE ApplyConversions(_, _, _)
ApplyConversions(lo, hi, x) ==
    IF lo >= hi THEN x
    ELSE ApplyConversions(lo + 1, hi, Convert(decls[lo + 1].type, x))

\* the conversions lo -> lo+1, ..., hi-1 -> hi, as convLog records them
ConversionSteps(lo, hi) ==
    [i \in 1..(hi - lo) |-> <<decls[lo + i - 1].type, decls[lo + i].type>>]

StrictlyAscending ==
    \A i, j \in DOMAIN decls : i < j => decls[i].ver < decls[j].ver

-----------------------------------------------------------------------------
(* Properties *)

\* C1: in a chain of N schemas with strictly ascending versions, a
\* well-formed document tagged v_k that deserializes as schema k, resolved
\* to schema N, gives the value of deserializing as schema k and applying
\* the conversions k -> k+1 -> ... -> N in that order, each once (none when
\* k = N), with migration_occurred = (k # N).
C1_ChainedConversion ==
    (/\ pc = "done"
     /\ StrictlyAscending
     /\ Pos(T) = Len(decls)
     /\ ~Malformed(config_str)
     /\ ExplicitTag(config_str, migrator.version_key))
    => \A k \in DOMAIN decls :
          LET S == decls[k].type
              d == DocWithout(config_str, migrator.version_key)
          IN  (/\ decls[k].ver = ValueOf(config_str, migrator.version_key).v
               /\ Deserializable(S, d))
              => /\ result.ok
                 /\ result.val =
                        ApplyConversions(k, Len(decls), FromDocument(S, d).val)
                 /\ result.migrated = (k # Len(decls))
                 /\ deserLog = <<[schema |-> S, doc |-> d]>>
                 /\ convLog = ConversionSteps(k, Len(decls))

\* C1 happens: a document of the first of three schemas went through both
\* conversions
C1_Witness ==
    /\ pc = "done" /\ StrictlyAscending /\ Len(decls) = 3 /\ Pos(T) = 3
    /\ ExplicitTag(config_str, migrator.version_key)
    /\ ValueOf(config_str, migrator.version_key).v = decls[1].ver
    /\ result.ok /\ result.migrated /\ Len(convLog) = 2

\* C2: a well-formed document whose resolved tag is the version of no schema
\* reachable from the target (also when it is the version of a schema
\* declared after the target) gets NoValidVersion, and nothing is
\* deserialized or converted at any point of the call.
C2_NoValidVersion ==
    (/\ InCall
     /\ ~Malformed(config_str)
     /\ version # None
     /\ Matches(T, Unwrap(version)) = {})
    => /\ deserLog = <<>> /\ convLog = <<>>
       /\ pc = "ret" => ret = Err("NoValidVersion")
       /\ pc = "done" => result = ErrPair("NoValidVersion")

\* C2 happens: the tag is the version of a schema declared after the target
C2_Witness ==
    /\ pc = "done" /\ version # None
    /\ Matches(T, Unwrap(version)) = {}
    /\ \E i \in DOMAIN decls : i > Pos(T) /\ decls[i].ver = Unwrap(version)
    /\ result = ErrPair("NoValidVersion")

\* the text with an explicit version field put in front
WithVersionField(text, k, v) == <<Line(k, IntVal(v))>> \o text

\* C3: for a well-formed document with no version field: without a default,
\* NoValidVersion; with a default equal to a chain version v_k, the result
\* (value and flag, or error) of the same document with an explicit version
\* field v_k.
C3_DefaultVersion ==
    (/\ pc = "done"
     /\ ~Malformed(config_str)
     /\ ~HasKey(config_str, migrator.version_key))
    => /\ migrator.default_version = None
            => result = ErrPair("NoValidVersion")
       /\ (/\ migrator.default_version # None
           /\ \E i \in DOMAIN decls :
                 decls[i].ver = Unwrap(migrator.default_version))
            => result = MigrateConfigResult(migrator, T,
                            WithVersionField(config_str, migrator.version_key,
                                             Unwrap(migrator.default_version)))

\* C3 happens: a document without version field was migrated from the
\* default version
C3_Witness ==
    /\ pc = "done"
    /\ ~Malformed(config_str)
    /\ ~HasKey(config_str, migrator.version_key)
    /\ migrator.default_version # None
    /\ result.ok /\ result.migrated /\ Len(convLog) >= 1

\* C4: a text the parser rejects gets the Parse error, whatever the version
\* key, the default version, the target and the chain; the call ends there,
\* before any version is resolved or any schema is visited.
C4_ParseErrorFirst ==
    (InCall /\ Malformed(config_str))
    => /\ pc = "done"
       /\ result = ErrPair("Parse")
       /\ version = None /\ visited = <<>> /\ deserLog = <<>>

\* C4 happens: a rejected text that carries a version field of the chain,
\* given to a migrator that has a default version
C4_Witness ==
    /\ pc = "done" /\ Malformed(config_str)
    /\ migrator.default_version # None
    /\ \E i \in DOMAIN config_str :
          /\ config_str[i].key = migrator.version_key
          /\ config_str[i].val = IntVal(decls[Pos(T)].ver)
    /\ result = ErrPair("Parse")

\* C5: the document given to the deserializer of the matched schema does not
\* hold the version key: the key is removed before migrate_from_doc is
\* entered, and the document is the text's other keys and values, unchanged
\* through every step of the walk.
C5_VersionKeyRemoved ==
    (InCall /\ ~Malformed(config_str))
    => /\ migrator.version_key \notin DOMAIN doc
       /\ doc = DocWithout(config_str, migrator.version_key)
       /\ \A i \in DOMAIN deserLog :
             /\ migrator.version_key \notin DOMAIN deserLog[i].doc
             /\ deserLog[i].doc = DocWithout(config_str, migrator.version_key)

\* C5 happens: a document with a version field and other keys was
\* deserialized two schemas below the target
C5_Witness ==
    /\ pc = "done"
    /\ HasKey(config_str, migrator.version_key)
    /\ Len(visited) = 3 /\ Len(deserLog) = 1
    /\ DOMAIN deserLog[1].doc # {}
    /\ result.ok

\* S after n steps along the predecessors
RECURSIVE FollowFrom(_, _)
FollowFrom(S, n) == IF n = 0 THEN S ELSE FollowFrom(From(S), n - 1)

\* C6: for a declaration list (T1 = v1, ..., Tn = vn), n >= 1, the registry
\* has From(T1) = T1, From(Ti) = T(i-1) for i in 2..n and VERSION(Ti) = vi;
\* so exactly one schema is its own predecessor, and the predecessors of any
\* Ti lead to T1 through distinct schemas. (Stated of the state the macro
\* leaves; no later step writes decls or impls.)
C6_ChainShape ==
    pc = "built"
    => LET n == Len(decls)
           Ty(i) == decls[i].type
       IN  /\ n >= 1
           /\ Len(impls) = n
           /\ Types = {Ty(i) : i \in 1..n}
           /\ From(Ty(1)) = Ty(1)
           /\ \A i \in 2..n : From(Ty(i)) = Ty(i - 1)
           /\ \A i \in 1..n : VERSION(Ty(i)) = decls[i].ver
           /\ Cardinality({S \in Types : From(S) = S}) = 1
           /\ \A i \in 1..n :
                 /\ FollowFrom(Ty(i), i - 1) = Ty(1)
                 /\ Cardinality({FollowFrom(Ty(i), j) : j \in 0..(i - 1)}) = i

\* C6 happens: a chain of three schemas was declared
C6_Witness ==
    /\ pc = "built" /\ Len(decls) = 3
    /\ From(decls[3].type) = decls[2].type

\* what C7 says of Deser, for S the schema the walk matches
DeserCase(S) ==
    /\ ~Malformed(config_str)
    /\ version # None
    /\ S \in Matches(T, Unwrap(version))
    /\ ~Deserializable(S, DocWithout(config_str, migrator.version_key))

\* C7 as stated: Deser exactly when the text parses, a tag is resolved, the
\* tag is the version of a schema S reachable from the target, and the
\* document fails to deserialize as S.
C7_AsStated ==
    pc = "done"
    => (result.err = "Deser" <=> \E S \in Reachable(T) : DeserCase(S))

\* C7 amended: Deser exactly when the text parses, a tag is resolved, the tag
\* is the version of a schema reachable from the target, and the document
\* fails to deserialize as the nearest such schema to the target; then no
\* conversion is applied and no value is returned.
C7_DeserError ==
    pc = "done"
    => /\ result.err = "Deser"
          <=> (/\ ~Malformed(config_str)
               /\ version # None
               /\ Matches(T, Unwrap(version)) # {}
               /\ DeserCase(Nearest(T, Unwrap(version))))
       /\ result.err = "Deser"
          => /\ ~result.ok /\ result.val = NoValue
             /\ convLog = <<>>
             /\ ret = Err("Deser")

\* C7 happens: the walk went down to an earlier schema and the document did
\* not deserialize there
C7_Witness ==
    /\ pc = "done" /\ result.err = "Deser"
    /\ Len(visited) >= 2 /\ Len(deserLog) = 1

\* C8: for every chain of N schemas, every target and every version, the
\* resolution visits at most N schemas, each at most once, going from the
\* target along the predecessors, and ends at the first schema whose version
\* is the tag or at the root with NoValidVersion; until then a step is
\* always possible.
C8_BoundedWalk ==
    InCall
    => /\ Len(visited) <= Len(decls)
       /\ \A i, j \in DOMAIN visited : i # j => visited[i] # visited[j]
       /\ \A i \in DOMAIN visited : visited[i] = FollowFrom(T, i - 1)
       /\ Len(stack) < Len(decls)
       /\ pc = "call"
          => /\ cur \notin {visited[i] : i \in DOMAIN visited}
             /\ \A i \in DOMAIN visited : VERSION(visited[i]) # Unwrap(version)
             /\ ENABLED MigrateFromDoc
       /\ pc = "ret"
          => /\ ENABLED (MapInto \/ Return)
             /\ Len(stack) < Len(visited)
       /\ (pc \in {"ret", "done"} /\ visited # <<>>)
          => LET last == visited[Len(visited)]
             IN  /\ \A i \in 1..(Len(visited) - 1) :
                       VERSION(visited[i]) # Unwrap(version)
                 /\ \/ VERSION(last) = Unwrap(version)
                    \/ /\ From(last) = last
                       /\ pc = "done" => result = ErrPair("NoValidVersion")

\* C8 happens: a walk over all three schemas of a chain that ended at the
\* root without a match
C8_Witness ==
    /\ pc = "done" /\ Len(decls) = 3 /\ Len(visited) = 3
    /\ VERSION(visited[3]) # Unwrap(version)
    /\ result = ErrPair("NoValidVersion")

\* C9: the tag is the integer value of the version field when the field is
\* present and an integer (the default is then ignored); otherwise the
\* default when there is one; otherwise the call fails with NoValidVersion.
\* A version field that is no integer counts as absent, and is removed all
\* the same.
C9_TagResolution ==
    (InCall /\ ~Malformed(config_str))
    => LET k == migrator.version_key
       IN  /\ ExplicitTag(config_str, k)
              => version = Some(ValueOf(config_str, k).v)
           /\ (~ExplicitTag(config_str, k) /\ migrator.default_version # None)
              => version = migrator.default_version
           /\ (~ExplicitTag(config_str, k) /\ migrator.default_version = None)
              => /\ version = None
                 /\ pc = "done" /\ result = ErrPair("NoValidVersion")
                 /\ visited = <<>>
           /\ k \notin DOMAIN doc

\* C9 happens: a version field that is a string, a default in its place, and
\* a document that deserialized once the field was removed
C9_Witness ==
    /\ pc = "done"
    /\ HasKey(config_str, migrator.version_key)
    /\ ValueOf(config_str, migrator.version_key).t = "str"
    /\ version = migrator.default_version
    /\ result.ok

\* C10: when two or more schemas reachable from the target have the version
\* of the tag, no error comes of it: the document is deserialized as the one
\* nearest to the target, only the conversions from it up to the target are
\* applied, and the earlier ones are never visited.
C10_DuplicateVersions ==
    (/\ pc = "done"
     /\ ~Malformed(config_str)
     /\ version # None
     /\ Cardinality(Matches(T, Unwrap(version))) >= 2)
    => LET S == Nearest(T, Unwrap(version))
           d == DocWithout(config_str, migrator.version_key)
       IN  /\ deserLog = <<[schema |-> S, doc |-> d]>>
           /\ convLog =
                IF Deserializable(S, d)
                THEN ConversionSteps(Pos(S), Pos(T)) ELSE <<>>
           /\ \A i \in DOMAIN visited : Pos(visited[i]) >= Pos(S)
           /\ result =
                IF Deserializable(S, d)
                THEN OkPair(ApplyConversions(Pos(S), Pos(T),
                                             FromDocument(S, d).val),
                            Unwrap(version) # decls[Pos(T)].ver)
                ELSE ErrPair("Deser")

\* C10 happens: the first two of three schemas share the tag's version, and
\* the document was deserialized as the second and converted once
C10_Witness ==
    /\ pc = "done" /\ Len(decls) = 3 /\ Pos(T) = 3
    /\ version # None
    /\ Matches(T, Unwrap(version)) = {decls[1].type, decls[2].type}
    /\ result.ok /\ Len(convLog) = 1
    /\ deserLog[1].schema = decls[2].type

=============================================================================
